---- MODULE Spec2Model ----
(***************************************************************************)
(* A model of pydaas-sql: the query fragment builders of                   *)
(* pydaas_sql/database.py (Filter, Pagination) and the generic record      *)
(* service of pydaas_sql/services.py (DataService) over a session.         *)
(***************************************************************************)
EXTENDS Integers, Sequences, FiniteSets, TLC

VARIABLES
    pg,         \* the Pagination instance last constructed
    pgRecv,     \* the receiver of the last Pagination mutator, before the call
    pgSelf,     \* the same receiver after the call
    pgCall,     \* the last Pagination call: its name and integer arguments
    fltRecv,    \* _expressions of the receiver of the last Filter call, before it
    fltSelf,    \* _expressions of that receiver after the call
    fltArgs,    \* the expressions given to the last Filter call
    fltOut,     \* _expressions of the Filter the last call returned
    fltCall,    \* the name of the last Filter call
    fltCalls,   \* number of combinator calls made on this chain
    committed,  \* rows durably committed to the table, in rowid order
    txn,        \* rows as the session's open transaction sees them
    staged,     \* operations staged on the session and not yet committed
    last        \* the last DataService call: arguments, outcome, pre-state

pagVars == <<pg, pgRecv, pgSelf, pgCall>>
fltVars == <<fltRecv, fltSelf, fltArgs, fltOut, fltCall, fltCalls>>
svcVars == <<committed, txn, staged, last>>
vars == <<pg, pgRecv, pgSelf, pgCall, fltRecv, fltSelf, fltArgs, fltOut, fltCall, fltCalls,
          committed, txn, staged, last>>

(***************************************************************************)
(* Bounds of the model.                                                    *)
(***************************************************************************)
MaxPagInt == 3      \* Pagination arguments range over -MaxPagInt..MaxPagInt
MaxFilterCalls == 2 \* combinator calls chained on one Filter
MaxId == 2          \* primary keys of the single-record calls range over 1..MaxId
MaxChunk == 2       \* chunk_size ranges over 1..MaxChunk
MaxValues == 3      \* bulk_create takes at most MaxValues input values
MaxBulkRows == 4    \* rows of the table a bulk call starts from
MaxFault == 4       \* the awaited session call that raises: 1..MaxFault, or none
MaxTable == 7       \* rows of the table scanned by the chunked iterator

Null == -1          \* Python's None

Max(a, b) == IF a >= b THEN a ELSE b
Min(a, b) == IF a <= b THEN a ELSE b

(***************************************************************************)
(* Pagination (database.py)                                                *)
(***************************************************************************)
PagInts == (0 - MaxPagInt)..MaxPagInt

\* Pagination.__init__ without the clamp on page (a faulty variant).
PaginationNoClamp(page, page_size, fetch_one_more) ==
    [page |-> page, page_size |-> Max(page_size, 1), fetch_one_more |-> fetch_one_more]

\* Pagination.__init__
Pagination(page, page_size, fetch_one_more) ==
    [page |-> Max(page, 1), page_size |-> Max(page_size, 1),
     fetch_one_more |-> fetch_one_more]

\* Pagination.page_, page_size_, fetch_one_more_
page_(self, page) == Pagination(page, self.page_size, self.fetch_one_more)
page_size_(self, page_size) == Pagination(self.page, page_size, self.fetch_one_more)
fetch_one_more_(self, fetch_one_more) == Pagination(self.page, self.page_size, fetch_one_more)

\* Pagination.apply: the offset and the limit put on the statement
PaginationOffset(self) == (self.page - 1) * self.page_size
PaginationLimit(self) == IF self.fetch_one_more THEN self.page_size + 1 ELSE self.page_size

\* stm.offset(offset).limit(limit) executed over an ordered result
PaginationApply(self, rows) ==
    SubSeq(rows, PaginationOffset(self) + 1,
           Min(PaginationOffset(self) + PaginationLimit(self), Len(rows)))

NoCall == [name |-> "none", a |-> 0, b |-> 0]

PagIdle ==
    /\ pg = Pagination(1, 20, FALSE)
    /\ pgRecv = pg
    /\ pgSelf = pg
    /\ pgCall = NoCall

PagInit ==
    \E p \in PagInts, s \in PagInts, f \in BOOLEAN :
        /\ pg = Pagination(p, s, f)
        /\ pgRecv = pg
        /\ pgSelf = pg
        /\ pgCall = [name |-> "__init__", a |-> p, b |-> s]

PagNew ==
    \E p \in PagInts, s \in PagInts, f \in BOOLEAN :
        /\ pg' = Pagination(p, s, f)
        /\ pgRecv' = pg'
        /\ pgSelf' = pg'
        /\ pgCall' = [name |-> "__init__", a |-> p, b |-> s]
        /\ UNCHANGED <<fltVars, svcVars>>

PagPage ==
    \E p \in PagInts :
        /\ pg' = page_(pg, p)
        /\ pgRecv' = pg
        /\ pgSelf' = pg
        /\ pgCall' = [name |-> "page_", a |-> p, b |-> 0]
        /\ UNCHANGED <<fltVars, svcVars>>

PagPageSize ==
    \E s \in PagInts :
        /\ pg' = page_size_(pg, s)
        /\ pgRecv' = pg
        /\ pgSelf' = pg
        /\ pgCall' = [name |-> "page_size_", a |-> s, b |-> 0]
        /\ UNCHANGED <<fltVars, svcVars>>

PagFetchOneMore ==
    \E f \in BOOLEAN :
        /\ pg' = fetch_one_more_(pg, f)
        /\ pgRecv' = pg
        /\ pgSelf' = pg
        /\ pgCall' = [name |-> "fetch_one_more_", a |-> 0, b |-> 0]
        /\ UNCHANGED <<fltVars, svcVars>>

(***************************************************************************)
(* Filter (database.py).  A predicate expression is a record               *)
(* [op, field, value, args]: a comparison of a column with a value, or a   *)
(* conjunction / disjunction of the expressions in args.                   *)
(***************************************************************************)
Names == {Null, 1}
SetPrices == {1, 2}
Prices == {Null} \cup SetPrices

Gt(field, value) == [op |-> "gt", field |-> field, value |-> value, args |-> <<>>]
Eq(field, value) == [op |-> "eq", field |-> field, value |-> value, args |-> <<>>]
sm_and(exprs) == [op |-> "and", field |-> "", value |-> 0, args |-> exprs]
sm_or(exprs) == [op |-> "or", field |-> "", value |-> 0, args |-> exprs]

\* Whether the storage engine finds expression e true of row r.
RECURSIVE Matches(_, _)
Matches(e, r) ==
    CASE e.op = "gt" -> r[e.field] # Null /\ r[e.field] > e.value
      [] e.op = "eq" -> r[e.field] = e.value
      [] e.op = "and" -> \A i \in 1..Len(e.args) : Matches(e.args[i], r)
      [] e.op = "or" -> \E i \in 1..Len(e.args) : Matches(e.args[i], r)

\* Filter.__init__: the tuple kept in _expressions
Filter(exprs) == exprs

\* Filter.and_
and_(self, exprs) == Filter(self \o exprs)

\* Filter.or_ without the emptiness tests: both sides always become an OR
\* branch (a faulty variant).
or_Both(self, exprs) == Filter(<<sm_or(<<sm_and(self), sm_and(exprs)>>)>>)

\* Filter.or_
or_(self, exprs) ==
    LET ors == (IF self # <<>> THEN <<sm_and(self)>> ELSE <<>>)
               \o (IF exprs # <<>> THEN <<sm_and(exprs)>> ELSE <<>>)
    IN  IF ors # <<>> THEN Filter(<<sm_or(ors)>>) ELSE Filter(<<>>)

\* Whether row r satisfies stm.where(*self._expressions)
FilterMatches(self, r) == \A i \in 1..Len(self) : Matches(self[i], r)

\* Filter.apply, executed over an ordered sequence of rows
FilterApply(self, rows) == SelectSeq(rows, LAMBDA r : FilterMatches(self, r))

Atoms == {Gt("price", 1), Eq("name", 1)}
AtomSeqs == {<<>>} \cup {<<a>> : a \in Atoms} \cup {<<a, b>> : a \in Atoms, b \in Atoms}
RowUniverse == [id : {1}, name : Names, price : Prices]

FltIdle ==
    /\ fltRecv = <<>>
    /\ fltSelf = <<>>
    /\ fltArgs = <<>>
    /\ fltOut = <<>>
    /\ fltCall = "none"
    /\ fltCalls = 0

FltInit ==
    \E a \in AtomSeqs :
        /\ fltRecv = Filter(a)
        /\ fltSelf = Filter(a)
        /\ fltArgs = a
        /\ fltOut = Filter(a)
        /\ fltCall = "__init__"
        /\ fltCalls = 0

FltAnd ==
    /\ fltCalls < MaxFilterCalls
    /\ \E recv \in {fltSelf, fltOut}, b \in AtomSeqs :
        /\ fltRecv' = recv
        /\ fltSelf' = recv
        /\ fltArgs' = b
        /\ fltOut' = and_(recv, b)
        /\ fltCall' = "and_"
        /\ fltCalls' = fltCalls + 1
        /\ UNCHANGED <<pagVars, svcVars>>

FltOr ==
    /\ fltCalls < MaxFilterCalls
    /\ \E recv \in {fltSelf, fltOut}, b \in AtomSeqs :
        /\ fltRecv' = recv
        /\ fltSelf' = recv
        /\ fltArgs' = b
        /\ fltOut' = or_(recv, b)
        /\ fltCall' = "or_"
        /\ fltCalls' = fltCalls + 1
        /\ UNCHANGED <<pagVars, svcVars>>

(***************************************************************************)
(* The model type bound to the service: Item(id, name, price), id the      *)
(* primary key.  A row is a record over ModelFields.  An optional argument *)
(* (None or a value) is a sequence of length 0 or 1.                       *)
(***************************************************************************)
ModelFields == {"id", "name", "price"}
Keys == {"name", "price", "extra"}

\* The declared default of a field of a partial-update object
FieldDefault(k) == Null

\* Input data: a mapping (kind "dict") whose keys are set, or a
\* partial-update object (kind "model") whose explicitly set fields are set;
\* a field of the object that was not set holds its default.
MkData(kind, set, n, p) ==
    [kind |-> kind, set |-> set,
     val |-> [k \in Keys |-> IF k \notin set THEN FieldDefault(k)
                             ELSE IF k = "name" THEN n
                             ELSE IF k = "price" THEN p ELSE 1]]
NoData == MkData("dict", {}, Null, Null)

\* data.model_dump(exclude_unset=True): the keys dumped
DumpUnset(data) == data.set

\* data.model_dump(exclude_unset=True, exclude_defaults=True): the keys dumped
DumpUnsetDefaults(data) == {k \in data.set : data.val[k] # FieldDefault(k)}

\* DataService._create_model
_create_model(data) ==
    LET keys == IF data.kind = "dict" THEN data.set ELSE DumpUnset(data)
    IN  [id |-> Null,
         name |-> IF "name" \in keys THEN data.val["name"] ELSE Null,
         price |-> IF "price" \in keys THEN data.val["price"] ELSE Null]

\* DataService._update_model
_update_model(instance, values) ==
    LET keys == IF values.kind = "dict" THEN values.set ELSE DumpUnsetDefaults(values)
    IN  [field \in ModelFields |->
            IF field \in keys THEN values.val[field] ELSE instance[field]]

(***************************************************************************)
(* The session (database.py, Database.Session: an AsyncSession with        *)
(* autoflush left on and expire_on_commit off).  Staged operations are     *)
(* flushed before every query, so a query sees txn: the committed rows     *)
(* with every staged operation applied.  A call of the service threads a   *)
(* record s through its steps: the session's state, and what the call has  *)
(* done so far.  The awaited session call number faultAt raises.           *)
(***************************************************************************)
Ids(rows) == {rows[i].id : i \in 1..Len(rows)}
NextId(rows) == IF rows = <<>> THEN 1 ELSE rows[Len(rows)].id + 1
Remove(rows, id) == SelectSeq(rows, LAMBDA r : r.id # id)
Upsert(rows, row) ==
    IF row.id \in Ids(rows)
    THEN [i \in 1..Len(rows) |-> IF rows[i].id = row.id THEN row ELSE rows[i]]
    ELSE Append(rows, row)

Begin(faultAt) ==
    [committed |-> committed, txn |-> txn, staged |-> staged,
     faultAt |-> faultAt, awaits |-> 0, raised |-> FALSE,
     commits |-> 0, count |-> 0, ret |-> <<>>, flag |-> FALSE, rows |-> <<>>,
     chunks |-> <<>>, touched |-> <<>>, pending |-> 0, maxPending |-> 0, done |-> 0]

\* An awaited call on the session: it raises when it is call number faultAt.
Await(s) == [s EXCEPT !.awaits = s.awaits + 1, !.raised = (s.awaits + 1 = s.faultAt)]

\* self.db.add(instance)
db_add(s, instance) ==
    LET row == IF instance.id = Null THEN [instance EXCEPT !.id = NextId(s.txn)]
               ELSE instance
    IN  [s EXCEPT !.txn = Upsert(s.txn, row),
                  !.staged = s.staged \cup {<<"add", row.id>>},
                  !.touched = Append(s.touched, row.id),
                  !.pending = s.pending + 1,
                  !.maxPending = Max(s.maxPending, s.pending + 1)]

\* await self.db.commit()
db_commit(s) ==
    LET t == Await(s)
    IN  IF t.raised THEN t
        ELSE [t EXCEPT !.committed = t.txn, !.staged = {}, !.commits = t.commits + 1,
                       !.pending = 0]

\* await self.db.delete(instance)
db_delete(s, instance) ==
    LET t == Await(s)
    IN  IF t.raised THEN t
        ELSE [t EXCEPT !.txn = Remove(t.txn, instance.id),
                       !.staged = t.staged \cup {<<"delete", instance.id>>},
                       !.touched = Append(t.touched, instance.id)]

(***************************************************************************)
(* DataService (services.py)                                               *)
(***************************************************************************)
\* The rows DataService.search returns for the statement it composes
\* (no Sorting: the engine returns rows in rowid order).
search(rows, filter, pagination) ==
    LET filtered == IF filter # <<>> THEN FilterApply(filter[1], rows) ELSE rows
    IN  IF pagination # <<>> THEN PaginationApply(pagination[1], filtered) ELSE filtered

\* res.one_or_none()
one_or_none(rows) ==
    [raised |-> Len(rows) > 1, ret |-> IF Len(rows) = 1 THEN <<rows[1]>> ELSE <<>>]

\* DataService.get with res.first() for res.one_or_none() (a faulty variant).
getFirst(rows, filter) ==
    LET m == FilterApply(filter, rows)
    IN  [raised |-> FALSE, ret |-> IF Len(m) >= 1 THEN <<m[1]>> ELSE <<>>]

\* DataService.get: what it returns or raises over the rows of the session
get(rows, filter) == one_or_none(FilterApply(filter, rows))

\* DataService.get_by_id (one primary-key column, id)
get_by_id(rows, id) == get(rows, and_(Filter(<<>>), <<Eq("id", id)>>))

\* DataService.create
create(s, data) ==
    LET a == db_add(s, _create_model(data))
        c == db_commit(a)
    IN  IF c.raised THEN c ELSE [c EXCEPT !.ret = <<c.txn[Len(c.txn)]>>]

\* DataService.update
update(s, instance, data) ==
    LET u == _update_model(instance, data)
        c == db_commit(db_add(s, u))
    IN  IF c.raised THEN c ELSE [c EXCEPT !.ret = <<u>>]

\* DataService.delete
delete(s, instance) == db_delete(s, instance)

\* update_by_id committing also when no record was found (a faulty
\* variant).
update_by_idCommit(s, id, data) ==
    LET t == Await(s)
        g == get_by_id(t.txn, id)
    IN  IF t.raised THEN t
        ELSE IF g.raised THEN [t EXCEPT !.raised = TRUE]
        ELSE IF g.ret = <<>> THEN db_commit(t)
        ELSE update(t, g.ret[1], data)

\* DataService.update_by_id
update_by_id(s, id, data) ==
    LET t == Await(s)
        g == get_by_id(t.txn, id)
    IN  IF t.raised THEN t
        ELSE IF g.raised THEN [t EXCEPT !.raised = TRUE]
        ELSE IF g.ret = <<>> THEN [t EXCEPT !.ret = <<>>]
        ELSE update(t, g.ret[1], data)

\* DataService.delete_by_id
delete_by_id(s, id) ==
    LET t == Await(s)
        g == get_by_id(t.txn, id)
    IN  IF t.raised THEN t
        ELSE IF g.raised THEN [t EXCEPT !.raised = TRUE]
        ELSE IF g.ret = <<>> THEN [t EXCEPT !.flag = FALSE]
        ELSE LET d == delete(t, g.ret[1])
             IN  IF d.raised THEN d ELSE [d EXCEPT !.flag = TRUE]

(***************************************************************************)
(* Bulk operations and the chunked iterator                                *)
(***************************************************************************)
Front(seq) == SubSeq(seq, 1, Len(seq) - 1)

\* The body of bulk_create's loop over values, from values[i] on
RECURSIVE BulkCreateLoop(_, _, _, _)
BulkCreateLoop(s, values, chunk_size, i) ==
    IF s.raised \/ i > Len(values) THEN s
    ELSE LET a == db_add(s, _create_model(values[i]))
             n == [a EXCEPT !.count = a.count + 1]
             c == IF n.count % chunk_size = 0 THEN db_commit(n) ELSE n
             d == IF n.count % chunk_size = 0 /\ ~c.raised
                  THEN [c EXCEPT !.done = c.done + 1] ELSE c
         IN  BulkCreateLoop(d, values, chunk_size, i + 1)

\* bulk_create without the commit of the remainder (a faulty variant).
bulk_createNoTail(s, values, chunk_size) == BulkCreateLoop(s, values, chunk_size, 1)

\* DataService.bulk_create
bulk_create(s, values, chunk_size) ==
    LET r == BulkCreateLoop(s, values, chunk_size, 1)
    IN  IF r.raised THEN r
        ELSE IF r.count % chunk_size # 0 THEN db_commit(r) ELSE r

\* bulk_update's body for one chunk: update every instance, add_all
RECURSIVE UpdateAll(_, _, _, _)
UpdateAll(s, chunk, data, i) ==
    IF i > Len(chunk) THEN s
    ELSE UpdateAll(db_add(s, _update_model(chunk[i], data)), chunk, data, i + 1)

\* bulk_delete's body for one chunk: asyncio.gather of the deletions, which
\* the session runs one after the other; the first to raise ends the call.
RECURSIVE DeleteAll(_, _, _)
DeleteAll(s, chunk, i) ==
    IF s.raised \/ i > Len(chunk) THEN s
    ELSE DeleteAll(delete(s, chunk[i]), chunk, i + 1)

\* What the consumer of _get_model_chunks does with one chunk:
\* the loop body of bulk_update, of bulk_delete, or nothing (plain iteration).
ChunkBody(mode, s, chunk, data) ==
    IF mode = "bulk_update"
    THEN LET c == db_commit(UpdateAll(s, chunk, data, 1))
         IN  IF c.raised THEN c
             ELSE [c EXCEPT !.count = c.count + Len(chunk), !.done = c.done + 1]
    ELSE IF mode = "bulk_delete"
    THEN LET d == DeleteAll(s, chunk, 1)
         IN  IF d.raised THEN d
             ELSE [d EXCEPT !.count = d.count + Len(chunk), !.done = d.done + 1]
    ELSE s

\* has_next taken from a full page, without the lookahead row (a faulty
\* variant).
HasNextFull(chunk, chunk_size) == Len(chunk) >= chunk_size

\* has_next = len(chunk) == chunk_size + 1
HasNext(chunk, chunk_size) == Len(chunk) = chunk_size + 1

\* DataService._get_model_chunks from page `page` on, interleaved with its
\* consumer: each chunk yielded is recorded in s.chunks and handed to the
\* consumer's body before the next page is fetched.
RECURSIVE _get_model_chunks(_, _, _, _, _, _)
_get_model_chunks(mode, s, filter, chunk_size, data, page) ==
    LET t == Await(s)
        chunk == search(t.txn, filter, <<Pagination(page, chunk_size, TRUE)>>)
        has_next == HasNext(chunk, chunk_size)
        yielded == IF has_next THEN Front(chunk) ELSE chunk
        u == ChunkBody(mode, [t EXCEPT !.chunks = Append(t.chunks, yielded)],
                       yielded, data)
    IN  IF t.raised THEN t
        ELSE IF u.raised \/ ~has_next THEN u
        ELSE _get_model_chunks(mode, u, filter, chunk_size, data, page + 1)

\* DataService.bulk_update
bulk_update(s, filter, data, chunk_size) ==
    _get_model_chunks("bulk_update", s, <<filter>>, chunk_size, data, 1)

\* DataService.bulk_delete
bulk_delete(s, filter, chunk_size) ==
    _get_model_chunks("bulk_delete", s, <<filter>>, chunk_size, NoData, 1)

(***************************************************************************)
(* The calls of the service as actions.  Each records in `last` its        *)
(* arguments, what it returned or raised, and the session before it.       *)
(***************************************************************************)
Args == [op |-> "none", filter |-> <<>>, data |-> NoData, chunk_size |-> 0, id |-> 0,
         values |-> <<>>, instance |-> <<>>]

Outcome(a, s) ==
    [op |-> a.op, filter |-> a.filter, data |-> a.data, chunk_size |-> a.chunk_size,
     id |-> a.id, values |-> a.values, instance |-> a.instance,
     raised |-> s.raised, ret |-> s.ret, flag |-> s.flag, rows |-> s.rows,
     count |-> s.count, commits |-> s.commits, chunks |-> s.chunks,
     touched |-> s.touched, maxPending |-> s.maxPending, done |-> s.done,
     pre_txn |-> txn, pre_committed |-> committed, pre_staged |-> staged]

Return(a, s) ==
    /\ committed' = s.committed
    /\ txn' = s.txn
    /\ staged' = s.staged
    /\ last' = Outcome(a, s)
    /\ UNCHANGED <<pagVars, fltVars>>

Filters == {<<>>, <<Gt("price", 0)>>, <<Gt("price", 1)>>, <<Eq("name", 1)>>}
ChunkSizes == 1..MaxChunk

CreateData ==
    {MkData("dict", {"name", "price"}, 1, p) : p \in SetPrices}
    \cup {MkData("model", {"price"}, Null, p) : p \in SetPrices}
UpdateData ==
    {MkData(k, set, n, p) : k \in {"dict", "model"}, set \in SUBSET Keys,
                            n \in Names, p \in Prices}
BulkData ==
    {MkData("model", {"price"}, Null, p) : p \in Prices}
    \cup {MkData("model", {"name"}, n, Null) : n \in Names}

Search ==
    /\ last.op = "none"
    /\ \E f \in {<<>>} \cup {<<x>> : x \in Filters},
       p \in {<<>>, <<Pagination(1, 1, FALSE)>>, <<Pagination(2, 1, FALSE)>>} :
        LET t == Await(Begin(0))
        IN  Return([Args EXCEPT !.op = "search", !.filter = f],
                   [t EXCEPT !.rows = search(t.txn, f, p)])

Create ==
    /\ last.op = "none"
    /\ NextId(txn) <= MaxId + 1
    /\ \E data \in CreateData :
        Return([Args EXCEPT !.op = "create", !.data = data], create(Begin(0), data))

Get ==
    /\ last.op = "none"
    /\ \E f \in Filters :
        LET t == Await(Begin(0))
            g == get(t.txn, f)
        IN  Return([Args EXCEPT !.op = "get", !.filter = <<f>>],
                   [t EXCEPT !.raised = g.raised, !.ret = g.ret])

Update ==
    /\ last.op = "none"
    /\ \E i \in 1..Len(txn), data \in UpdateData :
        Return([Args EXCEPT !.op = "update", !.instance = <<txn[i]>>, !.data = data],
               update(Begin(0), txn[i], data))

Delete ==
    /\ last.op = "none"
    /\ \E i \in 1..Len(txn) :
        Return([Args EXCEPT !.op = "delete", !.instance = <<txn[i]>>],
               delete(Begin(0), txn[i]))

UpdateById ==
    /\ last.op = "none"
    /\ \E id \in 1..MaxId, data \in UpdateData :
        Return([Args EXCEPT !.op = "update_by_id", !.id = id, !.data = data],
               update_by_id(Begin(0), id, data))

DeleteById ==
    /\ last.op = "none"
    /\ \E id \in 1..MaxId :
        Return([Args EXCEPT !.op = "delete_by_id", !.id = id],
               delete_by_id(Begin(0), id))

Iterate ==
    \E f \in {<<>>} \cup {<<x>> : x \in Filters}, cs \in ChunkSizes :
        Return([Args EXCEPT !.op = "_get_model_chunks", !.filter = f, !.chunk_size = cs],
               _get_model_chunks("iterate", Begin(0), f, cs, NoData, 1))

BulkValues ==
    UNION {[1..n -> {MkData("dict", {"name", "price"}, 1, p) : p \in SetPrices}]
           : n \in 0..MaxValues}

BulkCreate ==
    /\ last.op = "none"
    /\ \E values \in BulkValues, cs \in ChunkSizes, faultAt \in 0..MaxFault :
        Return([Args EXCEPT !.op = "bulk_create", !.values = values, !.chunk_size = cs],
               bulk_create(Begin(faultAt), values, cs))

BulkUpdate ==
    /\ last.op = "none"
    /\ \E f \in Filters, data \in BulkData, cs \in ChunkSizes, faultAt \in 0..MaxFault :
        Return([Args EXCEPT !.op = "bulk_update", !.filter = <<f>>, !.data = data,
                            !.chunk_size = cs],
               bulk_update(Begin(faultAt), f, data, cs))

BulkDelete ==
    /\ last.op = "none"
    /\ \E f \in Filters, cs \in ChunkSizes, faultAt \in 0..MaxFault :
        Return([Args EXCEPT !.op = "bulk_delete", !.filter = <<f>>, !.chunk_size = cs],
               bulk_delete(Begin(faultAt), f, cs))

(***************************************************************************)
(* Specifications                                                          *)
(***************************************************************************)
\* A fresh session over a database that holds `table`.
SvcInit(table) ==
    /\ committed = table
    /\ txn = table
    /\ staged = {}
    /\ last = Outcome(Args, Begin(0))

\* Tables of n rows in which every k-th row has price 2 and the others price 1
ScanTables ==
    {[i \in 1..n |-> [id |-> i, name |-> 1, price |-> IF i % k = 0 THEN 2 ELSE 1]]
     : n \in 0..MaxTable, k \in 1..2}

\* Tables of at most MaxBulkRows rows, ids 1, 2, ...
BulkTables ==
    UNION {{[i \in 1..n |-> [id |-> i, name |-> 1, price |-> p[i]]]
            : p \in [1..n -> SetPrices]} : n \in 0..MaxBulkRows}

\* What a session holds of primary key i: no row, a row, or a row whose
\* deletion is staged (delete does not commit).
Slots ==
    {[st |-> "absent", name |-> Null, price |-> Null]}
    \cup [st : {"live", "deleted"}, name : Names, price : Prices]
SlotRows(f) == [i \in 1..MaxId |-> [id |-> i, name |-> f[i].name, price |-> f[i].price]]

\* A session in a state the single-record calls leave it in.
SessionInit ==
    \E f \in [1..MaxId -> Slots] :
        /\ committed = SelectSeq(SlotRows(f), LAMBDA r : f[r.id].st # "absent")
        /\ txn = SelectSeq(SlotRows(f), LAMBDA r : f[r.id].st = "live")
        /\ staged = {<<"delete", i>> : i \in {j \in 1..MaxId : f[j].st = "deleted"}}
        /\ last = Outcome(Args, Begin(0))

\* One single-record call of a service on a session (one service per unit
\* of work).
Init == PagIdle /\ FltIdle /\ SessionInit
Next ==
    \/ Search
    \/ Create
    \/ Get
    \/ Update
    \/ Delete
    \/ UpdateById
    \/ DeleteById
Spec == Init /\ [][Next]_vars

\* Pagination instances built by the constructor and the mutators.
InitPagination == PagInit /\ FltIdle /\ SvcInit(<<>>)
NextPagination ==
    \/ PagNew
    \/ PagPage
    \/ PagPageSize
    \/ PagFetchOneMore
SpecPagination == InitPagination /\ [][NextPagination]_vars

\* Filters built by the constructor and chained combinators.
InitFilter == PagIdle /\ FltInit /\ SvcInit(<<>>)
NextFilter ==
    \/ FltAnd
    \/ FltOr
SpecFilter == InitFilter /\ [][NextFilter]_vars

\* The chunked iterator run over a table nothing else changes.
InitChunks == PagIdle /\ FltIdle /\ \E table \in ScanTables : SvcInit(table)
NextChunks == Iterate
SpecChunks == InitChunks /\ [][NextChunks]_vars

\* One bulk call on a fresh session (one service per unit of work), in which
\* an awaited session call may raise.
InitBulk == PagIdle /\ FltIdle /\ \E table \in BulkTables : SvcInit(table)
NextBulk ==
    \/ BulkCreate
    \/ BulkUpdate
    \/ BulkDelete
SpecBulk == InitBulk /\ [][NextBulk]_vars

(***************************************************************************)
(* Properties                                                              *)
(***************************************************************************)
Range(seq) == {seq[i] : i \in 1..Len(seq)}

RECURSIVE Flatten(_)
Flatten(seqs) == IF seqs = <<>> THEN <<>> ELSE Head(seqs) \o Flatten(Tail(seqs))

\* The rows of the session, before the last call, that its filter matches
Matching == IF last.filter = <<>> THEN last.pre_txn
            ELSE SelectSeq(last.pre_txn, LAMBDA r : FilterMatches(last.filter[1], r))

\* The session is as it was before the last call.
SessionUnchanged ==
    /\ txn = last.pre_txn
    /\ committed = last.pre_committed
    /\ staged = last.pre_staged
    /\ last.commits = 0
    /\ last.touched = <<>>

\* C1: after a bulk_delete that did not raise, the count returned is the
\* number of rows the filter matched before the call, and a search with the
\* same filter finds nothing.
C1_BulkDeleteRemovesAll ==
    (last.op = "bulk_delete" /\ ~last.raised) =>
        /\ last.count = Len(Matching)
        /\ search(txn, last.filter, <<>>) = <<>>

\* C2: over 3*chunk_size matching rows the chunked iterator yields 3 chunks of
\* chunk_size rows and no empty 4th; over 3*chunk_size + 1 it yields three of
\* chunk_size rows and one of 1 row; in both cases the chunks, in the order
\* yielded, concatenate to the matching rows.
C2_ChunkingCorrect ==
    (last.op = "_get_model_chunks") =>
        LET cs == last.chunk_size
            ch == last.chunks
        IN  /\ Len(Matching) = 3 * cs =>
                /\ Len(ch) = 3
                /\ \A i \in 1..3 : Len(ch[i]) = cs
                /\ Flatten(ch) = Matching
            /\ Len(Matching) = 3 * cs + 1 =>
                /\ Len(ch) = 4
                /\ \A i \in 1..3 : Len(ch[i]) = cs
                /\ Len(ch[4]) = 1
                /\ Flatten(ch) = Matching

\* C2 witness: 7 matching rows were iterated in chunks of 2 and 4 chunks came.
C2_Witness ==
    /\ last.op = "_get_model_chunks"
    /\ last.chunk_size = 2
    /\ Len(Matching) = 7
    /\ Len(last.chunks) = 4

\* The row bulk_create is to store for its i-th input value
CreatedRow(i) ==
    [id |-> NextId(last.pre_txn) + i - 1,
     name |-> last.values[i].val["name"],
     price |-> last.values[i].val["price"]]

\* C3: a bulk_create of N values that did not raise returns N, has committed
\* ceil(N / chunk_size) times, never had more than chunk_size instances
\* staged, and leaves exactly the N new rows, committed, after the old ones.
C3_BulkCreateCommitsAll ==
    (last.op = "bulk_create" /\ ~last.raised) =>
        LET N == Len(last.values)
            cs == last.chunk_size
        IN  /\ last.count = N
            /\ last.commits = (N + cs - 1) \div cs
            /\ last.maxPending <= cs
            /\ search(txn, <<>>, <<>>) = last.pre_txn \o [i \in 1..N |-> CreatedRow(i)]
            /\ \A i \in 1..N : CreatedRow(i) \in Range(committed)
            /\ Len(committed) = Len(last.pre_committed) + N
            /\ {x \in staged : x[1] = "add"} = {}

\* C3 witness: 3 values were created in chunks of 2, with 2 commits.
C3_Witness ==
    /\ last.op = "bulk_create"
    /\ ~last.raised
    /\ Len(last.values) = 3
    /\ last.chunk_size = 2
    /\ last.commits = 2

\* C4: after update(instance, data), every schema field that data explicitly
\* supplies holds the supplied value, and every other field holds what it
\* held before.
C4_UpdateIsPartial ==
    (last.op = "update" /\ ~last.raised) =>
        \A field \in ModelFields :
            last.ret[1][field] = IF field \in last.data.set THEN last.data.val[field]
                                 ELSE last.instance[1][field]

\* C5: when a bulk call raises while its chunk done + 1 is processed, what it
\* did for chunks 1..done is committed, and it registered or deleted nothing
\* beyond chunk done + 1.
C5_BulkFaultKeepsEarlierChunks ==
    (last.op \in {"bulk_create", "bulk_update", "bulk_delete"} /\ last.raised) =>
        LET cs == last.chunk_size
            ch == last.chunks
        IN  /\ last.op = "bulk_create" =>
                /\ \A i \in 1..(last.done * cs) : CreatedRow(i) \in Range(committed)
                /\ Len(last.touched) <= (last.done + 1) * cs
            /\ last.op = "bulk_update" =>
                /\ \A c \in 1..last.done : \A k \in 1..Len(ch[c]) :
                        _update_model(ch[c][k], last.data) \in Range(committed)
                /\ Range(last.touched) \subseteq Ids(Flatten(ch))
                /\ Len(ch) <= last.done + 1
            /\ last.op = "bulk_delete" =>
                /\ \A c \in 1..last.done : \A k \in 1..Len(ch[c]) :
                        ch[c][k].id \notin Ids(committed)
                /\ Range(last.touched) \subseteq Ids(Flatten(ch))
                /\ Len(ch) <= last.done + 1

\* The rows of the session, before the last call, with primary key last.id
ById == SelectSeq(last.pre_txn, LAMBDA r : r.id = last.id)

\* C6: update_by_id and delete_by_id of a missing primary key return None and
\* False, raise nothing and leave the session as it was; of a present one,
\* update_by_id returns the instance updated, with one commit, and
\* delete_by_id returns True with the deletion staged.
C6_ByIdNotFound ==
    /\ (last.op = "update_by_id" /\ ById = <<>>) =>
            /\ ~last.raised
            /\ last.ret = <<>>
            /\ SessionUnchanged
    /\ (last.op = "update_by_id" /\ ById # <<>>) =>
            /\ ~last.raised
            /\ last.ret = <<_update_model(ById[1], last.data)>>
            /\ last.ret[1] \in Range(committed)
            /\ last.commits = 1
    /\ (last.op = "delete_by_id" /\ ById = <<>>) =>
            /\ ~last.raised
            /\ last.flag = FALSE
            /\ SessionUnchanged
    /\ (last.op = "delete_by_id" /\ ById # <<>>) =>
            /\ ~last.raised
            /\ last.flag = TRUE
            /\ <<"delete", last.id>> \in staged
            /\ last.id \notin Ids(txn)
            /\ last.commits = 0

\* C6 witness: update_by_id missed a primary key whose row has a deletion
\* staged, on a session holding other rows.
C6_Witness ==
    /\ last.op = "update_by_id"
    /\ ById = <<>>
    /\ last.ret = <<>>
    /\ <<"delete", last.id>> \in last.pre_staged
    /\ last.pre_txn # <<>>
    /\ last.data.set # {}

\* C7: get returns None over no match, the row over one match, raises over
\* two or more, and leaves the session as it was.
C7_GetAtMostOne ==
    (last.op = "get") =>
        /\ Len(Matching) = 0 => (~last.raised /\ last.ret = <<>>)
        /\ Len(Matching) = 1 => (~last.raised /\ last.ret = <<Matching[1]>>)
        /\ Len(Matching) >= 2 => last.raised
        /\ SessionUnchanged

\* C7 witness: get raised over two matching rows.
C7_Witness ==
    /\ last.op = "get"
    /\ Len(Matching) = 2
    /\ last.raised

\* C8: the Filter or_ returns matches a row iff the row satisfies all of the
\* receiver's predicates or all of the given ones, an empty side being left
\* out (no empty OR branch); with both sides empty it is the empty Filter;
\* the receiver's predicates are what they were.
C8_OrSemantics ==
    (fltCall = "or_") =>
        /\ fltSelf = fltRecv
        /\ (fltRecv = <<>> /\ fltArgs = <<>>) => fltOut = <<>>
        /\ (fltRecv # <<>> \/ fltArgs # <<>>) =>
                /\ Len(fltOut) = 1
                /\ fltOut[1].op = "or"
                /\ \A i \in 1..Len(fltOut[1].args) : fltOut[1].args[i].args # <<>>
        /\ \A r \in RowUniverse :
                FilterMatches(fltOut, r) <=>
                    IF fltRecv # <<>> /\ fltArgs # <<>>
                    THEN FilterMatches(fltRecv, r) \/ FilterMatches(fltArgs, r)
                    ELSE IF fltRecv # <<>> THEN FilterMatches(fltRecv, r)
                    ELSE FilterMatches(fltArgs, r)

\* C8 witness: or_ was called with no predicates on a receiver that does not
\* match every row.
C8_Witness ==
    /\ fltCall = "or_"
    /\ fltRecv # <<>>
    /\ fltArgs = <<>>
    /\ \E r \in RowUniverse : ~FilterMatches(fltOut, r)

\* C9: every Pagination has page >= 1 and page_size >= 1, a mutator leaves
\* its receiver as it was, and apply uses an offset of (page-1)*page_size >= 0
\* and a limit of page_size, or page_size + 1 with fetch_one_more, >= 1.
C9_PaginationClamped ==
    /\ pg.page >= 1
    /\ pg.page_size >= 1
    /\ pgSelf = pgRecv
    /\ PaginationOffset(pg) = (pg.page - 1) * pg.page_size
    /\ PaginationOffset(pg) >= 0
    /\ PaginationLimit(pg) = pg.page_size + (IF pg.fetch_one_more THEN 1 ELSE 0)
    /\ PaginationLimit(pg) >= 1

\* C9 witness: page_ was given a negative page on a receiver past page 1.
C9_Witness ==
    /\ pgCall.name = "page_"
    /\ pgCall.a < 0
    /\ pgRecv.page > 1
    /\ pg.page = 1

\* C10: a bulk_update that did not raise has applied the patch to every row
\* the filter matched before the call, to each once, returns their number,
\* and has committed once per chunk.
C10_BulkUpdateUpdatesAll ==
    (last.op = "bulk_update" /\ ~last.raised) =>
        /\ last.count = Len(Matching)
        /\ \A i \in 1..Len(Matching) :
                _update_model(Matching[i], last.data) \in Range(txn)
        /\ Len(last.touched) = Cardinality(Range(last.touched))
        /\ last.commits = Len(last.chunks)

====
